---- MODULE Spec2Model ----
(***************************************************************************)
(* Model of the client-side video export of the Player component           *)
(* (src/components/Sidebar.tsx, handleExportVideo and the export button).  *)
(*                                                                         *)
(* Time is counted in integer milliseconds, as Date.now() reports it and   *)
(* as setTimeout() truncates its delay.  One invocation of                 *)
(* handleExportVideo is a sequence of steps, one per stretch of code       *)
(* between two suspension points (await).                                  *)
(***************************************************************************)
EXTENDS Integers, Sequences, FiniteSets

(***************************************************************************)
(* Program constants                                                       *)
(***************************************************************************)
DefaultDurationMs == 3000

GraceMs == 500

Fps == 30

\* const frameInterval = 1000 / fps; setTimeout truncates the delay to whole ms
FrameIntervalMs == 1000 \div Fps

(***************************************************************************)
(* Bounds of the model                                                     *)
(***************************************************************************)
\* longest scene list handed to the Player
MaxScenes == 2

\* number of export invocations followed
MaxExports == 2

\* number of slow events (a slow frame render, a slow asset load) per run
MaxLate == 1

\* render time of a slow frame, longer than one frame interval
SlowRenderMs == 50

\* render time of a frame that is slower than instant but keeps up
BusyRenderMs == 20

\* time a slow asset load (image, narration clip) takes
SlowLoadMs == 5

\* decoded duration of a narration clip that decodes
ClipMs == 100

(***************************************************************************)
(* Inputs: scenes and the background track.  A URL is modelled by what the *)
(* browser makes of it: absent, loading/decoding, or failing.              *)
(***************************************************************************)
ImageUrls == {"none", "ok", "broken"}

AudioUrls == {"none", "ok", "bad"}

SceneKinds ==
  { [imageUrl |-> "none",   audioUrl |-> "none"],
    [imageUrl |-> "ok",     audioUrl |-> "ok"],
    [imageUrl |-> "broken", audioUrl |-> "none"],
    [imageUrl |-> "none",   audioUrl |-> "bad"] }

SceneLists == UNION { [1..n -> SceneKinds] : n \in 0..MaxScenes }

VARIABLES
  scenes,              \* prop scenes of the Player
  backgroundMusicUrl,  \* prop backgroundMusicUrl: "none" (null), "ok", "bad"
  isExporting,         \* React state isExporting
  pc,                  \* position of the export invocation
  capScenes,           \* scenes captured by the invocation's closure
  capMusic,            \* backgroundMusicUrl captured by the closure
  actx,                \* AudioContext: "none", "running", "closed"
  musicBuffer,         \* musicBuffer !== null
  musicSource,         \* musicSource: "null", "playing", "stopped"
  recorder,            \* MediaRecorder: "none", "recording", "inactive"
                       \* (stop() called), "stopped" (onstop fired)
  i,                   \* index of the scene of the for loop (1-based)
  img,                 \* img: "null", "loaded", "broken"
  durationMs,          \* durationMs of the current scene
  loopTime,            \* loopTime of the current scene
  frameMs,             \* time the current frame takes: render time + delay
  failure,             \* the error caught at line 387, "none" if none
  downloads,           \* number of files delivered (a.click())
  exportsStarted,      \* number of invocations of handleExportVideo
  inFlight,            \* invocations started and not yet returned
  recordedMs,          \* time elapsed since recorder.start()
  contrib,             \* per finished scene: loop time, last frame, nominal
  narrStarted,         \* scenes whose narration source was started
  lateLeft,            \* slow events the environment may still produce
  aspectRatio,         \* state aspectRatio of App: sets the canvas attributes
  startAspect,         \* aspectRatio when the invocation was started
  surface,             \* aspect ratios of the canvas at the frames rendered
  rt,                  \* one call of retryOperation
  pq,                  \* one call of processQueue
  zoom,                \* scale of the latest frame of the scene in progress
  sv,                  \* the ScenesView: scenes state and generations
  pv,                  \* the preview of the Player
  ww                   \* one layout of a scene's subtitle

vars == << scenes, backgroundMusicUrl, isExporting, pc, capScenes, capMusic,
           actx, musicBuffer, musicSource, recorder, i, img, durationMs,
           loopTime, frameMs, failure, downloads, exportsStarted, inFlight,
           recordedMs, contrib, narrStarted, lateLeft, aspectRatio,
           startAspect, surface, rt, pq, zoom, sv, pv, ww >>

uiVars == << scenes, backgroundMusicUrl, aspectRatio >>

\* the variables of the generation service, of the bulk queue, of the
\* ScenesView, of the preview and of the subtitle layout
otherVars == << rt, pq, sv, pv, ww >>

\* the variables of the Player and of its export
exportVars == << scenes, backgroundMusicUrl, isExporting, pc, capScenes,
                capMusic, actx, musicBuffer, musicSource, recorder, i, img,
                durationMs, loopTime, frameMs, failure, downloads,
                exportsStarted, inFlight, recordedMs, contrib, narrStarted,
                lateLeft, aspectRatio, startAspect, surface, zoom >>

Max(a, b) == IF a > b THEN a ELSE b

RECURSIVE SumLoop(_)
SumLoop(s) == IF s = << >> THEN 0 ELSE Head(s).loop + SumLoop(Tail(s))

(***************************************************************************)
(* Pieces of handleExportVideo                                             *)
(***************************************************************************)
\* a button that is disabled for an empty scene list only
ExportButtonDisabled_NoBusy(exporting, sc) == Len(sc) = 0

\* disabled={isExporting || scenes.length === 0}
ExportButtonDisabled(exporting, sc) == exporting \/ Len(sc) = 0

\* try { fetch; arrayBuffer; decodeAudioData } catch { console.warn }
LoadBackgroundMusic(url) ==
  [thrown |-> FALSE, buffer |-> (url = "ok")]

\* the same without the try/catch around the fetch and the decode
LoadSceneAudio_NoCatch(scene) ==
  IF scene.audioUrl = "ok"
  THEN [thrown |-> FALSE, durationMs |-> ClipMs, started |-> TRUE]
  ELSE [thrown |-> scene.audioUrl = "bad", durationMs |-> DefaultDurationMs,
        started |-> FALSE]

\* let durationMs = 3000; if (scene.audioUrl) try { ...; durationMs =
\* audioBuffer.duration * 1000; source.start() } catch { console.warn }
LoadSceneAudio(scene) ==
  IF scene.audioUrl = "ok"
  THEN [thrown |-> FALSE, durationMs |-> ClipMs, started |-> TRUE]
  ELSE [thrown |-> FALSE, durationMs |-> DefaultDurationMs, started |-> FALSE]

\* a duration without the grace
AddGrace_None(d) == d

\* source.start(actx.currentTime) of a clip one scene ahead
StartedNarration_Ahead(started, k) == IF started THEN {k + 1} ELSE {}

\* source.start(actx.currentTime): the clip started in the pass of scene k
StartedNarration(started, k) == IF started THEN {k} ELSE {}

\* durationMs += 500
AddGrace(d) == d + GraceMs

\* a loop that leaves once the next frame would pass the duration
LoopContinues_Early(lt, d) == lt + FrameIntervalMs < d

\* while (loopTime < durationMs)
LoopContinues(lt, d) == lt < d

\* the operands of the subtraction swapped
FrameDelay_Swapped(elapsed) == Max(0, elapsed - FrameIntervalMs)

\* const delay = Math.max(0, frameInterval - elapsed)
FrameDelay(elapsed) == Max(0, FrameIntervalMs - elapsed)

\* a loop time that counts frames of the nominal interval
ElapsedAfter_Counted(lt, dt) == lt + FrameIntervalMs

\* loopTime = Date.now() - startTime, the frame having taken dt
ElapsedAfter(lt, dt) == lt + dt

\* a loop over the scenes that stops one scene early
HasNextScene_OffByOne(k, n) == k + 1 < n

\* for (const scene of scenes): is there a scene after scene k of n
HasNextScene(k, n) == k < n

\* a finish that leaves the background bed playing
BedAfterStop_Forgot(src) == src

\* musicSource?.stop()
BedAfterStop(src) == IF src = "playing" THEN "stopped" ELSE src

\* a finish that does not await recordingPromise
RecordingPromiseResolved_NoAwait(rec) == TRUE

\* await recordingPromise: resolved by recorder.onstop, which the recorder
\* fires after the last dataavailable
RecordingPromiseResolved(rec) == rec = "stopped"

\* img = new Image(); onload and onerror both resolve, img stays non-null
LoadedImage(url) ==
  IF url = "none" THEN "null" ELSE IF url = "ok" THEN "loaded" ELSE "broken"

\* if (img) { ...; ctx.drawImage(img, ...) }: drawImage throws on a broken image
DrawImageThrows(image) == image = "broken"

\* times the environment may take for a load, within the budget of slow events
LoadTimes(url) ==
  IF url = "none" THEN {0}
  ELSE IF lateLeft > 0 THEN {0, SlowLoadMs} ELSE {0}

\* render times of one frame, within the budget of slow events
RenderTimes == IF lateLeft > 0 THEN {0, BusyRenderMs, SlowRenderMs}
               ELSE {0, BusyRenderMs}

\* what a load or a frame render takes from the budget of slow events
LateLoad(t) == IF t > 0 THEN 1 ELSE 0

LateFrame(elapsed) == IF elapsed > FrameIntervalMs THEN 1 ELSE 0

\* no call of retryOperation, no call of processQueue
RetryIdle == [pc |-> "idle"]

QueueIdle == [pc |-> "idle"]

\* no ScenesView, no preview, no subtitle layout under observation
ViewIdle == [pc |-> "idle"]

PreviewIdle == [pc |-> "idle"]

WrapIdle == [pc |-> "idle"]

\* const scale = 1.0 + (0.15 * progress), in hundredths
ZoomStartPct == 100

ZoomRangePct == 15

\* no frame of the scene drawn yet
NoZoom == [num |-> 0, den |-> 1]

\* a scale taken at the end of the frame's interval
Zoom_Ahead(lt, d) ==
  [num |-> ZoomStartPct * d + ZoomRangePct * (lt + FrameIntervalMs),
   den |-> ZoomStartPct * d]

\* const progress = loopTime / durationMs;
\* const scale = 1.0 + (0.15 * progress): the fraction num / den
Zoom(lt, d) ==
  [num |-> ZoomStartPct * d + ZoomRangePct * lt, den |-> ZoomStartPct * d]

(***************************************************************************)
(* Initial state: the Player is mounted, no export has been started        *)
(***************************************************************************)
\* the export's variables before any export
ExportIdle ==
  /\ isExporting = FALSE
  /\ pc = "idle"
  /\ capScenes = << >>
  /\ capMusic = "none"
  /\ actx = "none"
  /\ musicBuffer = FALSE
  /\ musicSource = "null"
  /\ recorder = "none"
  /\ i = 0
  /\ img = "null"
  /\ durationMs = 0
  /\ loopTime = 0
  /\ frameMs = 0
  /\ failure = "none"
  /\ downloads = 0
  /\ exportsStarted = 0
  /\ inFlight = 0
  /\ recordedMs = 0
  /\ contrib = << >>
  /\ narrStarted = {}
  /\ lateLeft = MaxLate
  /\ aspectRatio = "16:9"
  /\ startAspect = "16:9"
  /\ surface = {}
  /\ zoom = NoZoom

Init ==
  /\ scenes \in SceneLists
  /\ backgroundMusicUrl \in {"none", "ok", "bad"}
  /\ ExportIdle
  /\ rt = RetryIdle
  /\ pq = QueueIdle
  /\ sv = ViewIdle
  /\ pv = PreviewIdle
  /\ ww = WrapIdle

\* catch (e) { console.error; alert } finally { setIsExporting(false) }
Abort(reason) ==
  /\ pc' = "aborted"
  /\ failure' = reason
  /\ isExporting' = FALSE
  /\ inFlight' = inFlight - 1

\* click on "Baixar Video": handleExportVideo up to the try block
ClickExport ==
  /\ ~ExportButtonDisabled(isExporting, scenes)
  /\ Len(scenes) # 0
  /\ exportsStarted < MaxExports
  /\ isExporting' = TRUE
  /\ pc' = "setup"
  /\ capScenes' = scenes
  /\ capMusic' = backgroundMusicUrl
  /\ exportsStarted' = exportsStarted + 1
  /\ inFlight' = inFlight + 1
  /\ actx' = "none"
  /\ musicBuffer' = FALSE
  /\ musicSource' = "null"
  /\ recorder' = "none"
  /\ i' = 0
  /\ img' = "null"
  /\ durationMs' = 0
  /\ loopTime' = 0
  /\ frameMs' = 0
  /\ failure' = "none"
  /\ recordedMs' = 0
  /\ contrib' = << >>
  /\ narrStarted' = {}
  /\ startAspect' = aspectRatio
  /\ surface' = {}
  /\ zoom' = NoZoom
  /\ UNCHANGED << otherVars, uiVars, downloads, lateLeft >>

\* canvas, 2d context, AudioContext, destination and gain node.  The canvas
\* is rendered with the button, so canvasRef.current is never null here; the
\* browser may still refuse the 2d context.
Setup ==
  /\ pc = "setup"
  /\ \E ctxOk \in BOOLEAN :
       IF ctxOk
       THEN /\ actx' = "running"
            /\ pc' = IF capMusic # "none" THEN "loadMusic" ELSE "startRecorder"
            /\ UNCHANGED << failure, isExporting, inFlight >>
       ELSE /\ Abort("noContext")
            /\ UNCHANGED actx
  /\ UNCHANGED << uiVars, otherVars, startAspect, surface, zoom,
                  capScenes, capMusic, musicBuffer, musicSource,
                  recorder, i, img, durationMs, loopTime, frameMs, downloads,
                  exportsStarted, recordedMs, contrib, narrStarted, lateLeft >>

\* 2. Load Background Music
LoadMusic ==
  /\ pc = "loadMusic"
  /\ LET r == LoadBackgroundMusic(capMusic) IN
       IF r.thrown
       THEN /\ Abort("music")
            /\ UNCHANGED musicBuffer
       ELSE /\ musicBuffer' = r.buffer
            /\ pc' = "startRecorder"
            /\ UNCHANGED << failure, isExporting, inFlight >>
  /\ UNCHANGED << uiVars, otherVars, startAspect, surface, zoom,
                  capScenes, capMusic, actx, musicSource, recorder, i,
                  img, durationMs, loopTime, frameMs, downloads,
                  exportsStarted, recordedMs, contrib, narrStarted, lateLeft >>

\* 3. Start Background Music Loop, 4. Prepare Video Recorder, recorder.start()
StartRecorder ==
  /\ pc = "startRecorder"
  /\ musicSource' = IF musicBuffer THEN "playing" ELSE "null"
  /\ \E supported \in BOOLEAN :
       IF supported
       THEN /\ recorder' = "recording"
            /\ recordedMs' = 0
            /\ i' = 1
            /\ pc' = "loadImage"
            /\ UNCHANGED << failure, isExporting, inFlight >>
       ELSE /\ Abort("recorder")
            /\ UNCHANGED << recorder, recordedMs, i >>
  /\ UNCHANGED << uiVars, otherVars, startAspect, surface, zoom,
                  capScenes, capMusic, actx, musicBuffer, img,
                  durationMs, loopTime, frameMs, downloads, exportsStarted,
                  contrib, narrStarted, lateLeft >>

\* A. Load Image
LoadImage ==
  /\ pc = "loadImage"
  /\ \E t \in LoadTimes(capScenes[i].imageUrl) :
       /\ recordedMs' = recordedMs + t
       /\ lateLeft' = lateLeft - LateLoad(t)
  /\ img' = LoadedImage(capScenes[i].imageUrl)
  /\ pc' = "loadAudio"
  /\ UNCHANGED << uiVars, otherVars, startAspect, surface, zoom,
                  isExporting, capScenes, capMusic, actx, musicBuffer,
                  musicSource, recorder, i, durationMs, loopTime, frameMs,
                  failure, downloads, exportsStarted, inFlight, contrib,
                  narrStarted >>

\* B. Load Audio & Determine Duration, up to the first test of the while loop
LoadAudio ==
  /\ pc = "loadAudio"
  /\ LET r == LoadSceneAudio(capScenes[i]) IN
       IF r.thrown
       THEN /\ Abort("sceneAudio")
            /\ UNCHANGED << durationMs, loopTime, narrStarted, recordedMs,
                            lateLeft >>
       ELSE /\ \E t \in LoadTimes(capScenes[i].audioUrl) :
                 /\ recordedMs' = recordedMs + t
                 /\ lateLeft' = lateLeft - LateLoad(t)
            /\ durationMs' = AddGrace(r.durationMs)
            /\ narrStarted' = narrStarted \cup StartedNarration(r.started, i)
            /\ loopTime' = 0
            /\ pc' = "frame"
            /\ UNCHANGED << failure, isExporting, inFlight >>
  /\ UNCHANGED << uiVars, otherVars, startAspect, surface, zoom,
                  capScenes, capMusic, actx, musicBuffer, musicSource,
                  recorder, i, img, frameMs, downloads, exportsStarted,
                  contrib >>

\* one pass of the body of the while loop, up to the await of the timer
RenderFrame ==
  /\ pc = "frame"
  /\ IF img # "null" /\ DrawImageThrows(img)
     THEN /\ Abort("drawImage")
          /\ UNCHANGED << frameMs, lateLeft, zoom >>
     ELSE /\ zoom' = Zoom(loopTime, durationMs)
          /\ \E elapsed \in RenderTimes :
               /\ frameMs' = elapsed + FrameDelay(elapsed)
               /\ lateLeft' = lateLeft - LateFrame(elapsed)
          /\ pc' = "wait"
          /\ UNCHANGED << failure, isExporting, inFlight >>
  /\ surface' = surface \cup {aspectRatio}
  /\ UNCHANGED << uiVars, otherVars, startAspect,
                  capScenes, capMusic, actx, musicBuffer, musicSource,
                  recorder, i, img, durationMs, loopTime, downloads,
                  exportsStarted, recordedMs, contrib, narrStarted >>

\* the timer fires: loopTime is read, the while and for tests are made and,
\* after the last scene, 6. Finish up to await recordingPromise
TimerFires ==
  /\ pc = "wait"
  /\ loopTime' = ElapsedAfter(loopTime, frameMs)
  /\ recordedMs' = recordedMs + frameMs
  /\ IF LoopContinues(loopTime', durationMs)
     THEN /\ pc' = "frame"
          /\ UNCHANGED << contrib, i, musicSource, recorder, zoom >>
     ELSE /\ zoom' = NoZoom
          /\ contrib' = Append(contrib, [loop |-> loopTime', last |-> frameMs,
                                         nominal |-> durationMs])
          /\ IF HasNextScene(i, Len(capScenes))
             THEN /\ i' = i + 1
                  /\ pc' = "loadImage"
                  /\ UNCHANGED << musicSource, recorder >>
             ELSE /\ musicSource' = BedAfterStop(musicSource)
                  /\ recorder' = "inactive"
                  /\ pc' = "awaitStop"
                  /\ UNCHANGED i
  /\ UNCHANGED << uiVars, otherVars, startAspect, surface,
                  isExporting, capScenes, capMusic, actx, musicBuffer,
                  img, durationMs, frameMs, failure, downloads,
                  exportsStarted, inFlight, narrStarted, lateLeft >>

\* recorder.onstop = () => resolve(): the recorder has flushed its data
OnStop ==
  /\ recorder = "inactive"
  /\ recorder' = "stopped"
  /\ UNCHANGED << uiVars, otherVars, startAspect, surface, zoom, isExporting, pc,
                  capScenes, capMusic, actx, musicBuffer, musicSource, i, img,
                  durationMs, loopTime, frameMs, failure, downloads,
                  exportsStarted, inFlight, recordedMs, contrib, narrStarted,
                  lateLeft >>

\* after await recordingPromise: actx.close(), the blob is downloaded, finally
RecorderStopped ==
  /\ pc = "awaitStop"
  /\ RecordingPromiseResolved(recorder)
  /\ actx' = "closed"
  /\ downloads' = downloads + 1
  /\ pc' = "complete"
  /\ isExporting' = FALSE
  /\ inFlight' = inFlight - 1
  /\ UNCHANGED << uiVars, otherVars, startAspect, surface, zoom,
                  capScenes, capMusic, musicBuffer, musicSource,
                  recorder, i, img, durationMs, loopTime, frameMs, failure,
                  exportsStarted, recordedMs, contrib, narrStarted, lateLeft >>

ExportStep ==
  \/ Setup
  \/ LoadMusic
  \/ StartRecorder
  \/ LoadImage
  \/ LoadAudio
  \/ RenderFrame
  \/ TimerFires
  \/ OnStop
  \/ RecorderStopped

Next ==
  \/ ClickExport
  \/ ExportStep

Spec == Init /\ [][Next]_vars

\* <select value={aspectRatio} onChange={(e) => setAspectRatio(...)}>: the
\* canvas is rendered again with the width and height of the new ratio
SetAspectRatio ==
  /\ \E a \in {"16:9", "9:16"} :
       /\ a # aspectRatio
       /\ aspectRatio' = a
  /\ UNCHANGED << scenes, backgroundMusicUrl, otherVars, startAspect, surface,
                  zoom, isExporting, pc, capScenes, capMusic, actx, musicBuffer,
                  musicSource, recorder, i, img, durationMs, loopTime,
                  frameMs, failure, downloads, exportsStarted, inFlight,
                  recordedMs, contrib, narrStarted, lateLeft >>

UiNext ==
  \/ ClickExport
  \/ ExportStep
  \/ SetAspectRatio

\* the export with the header's aspect ratio control in use
UiSpec == Init /\ [][UiNext]_vars

\* every awaited fetch, decode, image load, timer and stop event settles
LiveSpec == Init /\ [][Next]_vars /\ WF_vars(ExportStep)

(***************************************************************************)
(* retryOperation and generateImage (src/unnamed/part_000)                 *)
(*                                                                         *)
(* A delay is kept as a multiple of 1/DelayScale ms, so that delay *= 1.5  *)
(* is exact.  An outcome of a call is "ok" or the error it throws.         *)
(***************************************************************************)
\* largest maxRetries tried (the callers pass 3 and 5)
MaxRetriesBound == 3

DelayScale == 2 ^ (MaxRetriesBound + 1)

\* const jitter = Math.random() * 1000
JitterRangeMs == 1000

\* Math.random() * 1000: the ends of [0, 1000), in ms
Jitters == {0, JitterRangeMs - 1}

\* initialDelay of generateScript/formatScript, generateSpeech, generateImage
InitialDelays == {2000, 3000, 4000}

\* an error by what the catch block looks at: error.status and error.message
Errors ==
  { [kind |-> "error", status |-> 429, msg |-> "plain"],
    [kind |-> "error", status |-> 0,   msg |-> "quota"],
    [kind |-> "error", status |-> 500, msg |-> "plain"] }

\* the value a call resolves with
Value == [kind |-> "value", status |-> 0, msg |-> ""]

Outcomes == {Value} \cup Errors

\* no call, or no end, yet
NotCalled == [kind |-> "none", status |-> 0, msg |-> ""]

\* throw new Error("Operation failed after retries")
SubstituteError ==
  [kind |-> "error", status |-> 0, msg |-> "Operation failed after retries"]

\* status === 429 || msg.includes('429') || msg.includes('quota') || ...
IsRateLimit(err) ==
  \/ err.status = 429
  \/ err.msg \in {"429", "quota", "RESOURCE_EXHAUSTED", "rate limit"}

\* a last attempt recognised one pass too late
IsLastAttempt_Late(k, max) == k = max

\* a last attempt recognised one pass too early
IsLastAttempt_Early(k, max) == k >= max - 2

\* const isLastAttempt = i === maxRetries - 1
IsLastAttempt(k, max) == k = max - 1

\* a wait after every error but the last attempt's
ShouldRetry_AnyError(err, k, max) == ~IsLastAttempt(k, max)

\* if (isRateLimit && !isLastAttempt) { wait; continue } else throw error
ShouldRetry(err, k, max) == IsRateLimit(err) /\ ~IsLastAttempt(k, max)

\* a delay that does not grow
Backoff_Flat(d) == d

\* delay *= 1.5
Backoff(d) == (d * 3) \div 2

\* a fallback kept for the failures that are not rate limits
FallbackInvoked_NonRateOnly(op, primary) ==
  op = "image" /\ primary # Value /\ ~IsRateLimit(primary)

\* generateImage: catch (error) { return generateImageFallback(...) } around
\* the primary call; the other operations have no fallback
FallbackInvoked(op, primary) == op = "image" /\ primary # Value

\* for (let i = 0; i < maxRetries; i++) { try { return await operation() ...
\* the test of the for loop and, if it holds, the call of the operation
Attempt(r) ==
  IF r.i < r.maxRetries
  THEN [r EXCEPT !.pc = "calling"]
  ELSE [r EXCEPT !.pc = "thrown", !.result = SubstituteError]

RetryInit ==
  /\ scenes = << >>
  /\ backgroundMusicUrl = "none"
  /\ ExportIdle
  /\ pq = QueueIdle
  /\ sv = ViewIdle
  /\ pv = PreviewIdle
  /\ ww = WrapIdle
  /\ \E op \in {"plain", "image"}, max \in 1..MaxRetriesBound,
        d \in InitialDelays :
       rt = [pc |-> "start", op |-> op, maxRetries |-> max,
             initialDelay |-> d, i |-> 0, delay |-> d * DelayScale,
             history |-> << >>, waits |-> << >>, result |-> NotCalled]

\* retryOperation(operation, maxRetries, initialDelay) is called
RtStart ==
  /\ rt.pc = "start"
  /\ rt' = Attempt(rt)
  /\ UNCHANGED << exportVars, pq, sv, pv, ww >>

\* the operation settles: return of its value, or the catch block up to the
\* wait or the throw
RtSettle ==
  /\ rt.pc = "calling"
  /\ \E primary \in Outcomes :
       \E fallback \in (IF FallbackInvoked(rt.op, primary) THEN Outcomes
                        ELSE {NotCalled}) :
         LET result == IF fallback = NotCalled THEN primary ELSE fallback
             h == Append(rt.history, [primary |-> primary,
                                      fallback |-> fallback,
                                      result |-> result])
         IN IF result = Value
            THEN rt' = [rt EXCEPT !.pc = "returned", !.result = Value,
                                  !.history = h]
            ELSE IF ShouldRetry(result, rt.i, rt.maxRetries)
            THEN \E jitter \in Jitters :
                   rt' = [rt EXCEPT !.pc = "waiting", !.history = h,
                                    !.waits = Append(rt.waits,
                                       [base |-> rt.delay,
                                        jitter |-> jitter * DelayScale])]
            ELSE rt' = [rt EXCEPT !.pc = "thrown", !.result = result,
                                  !.history = h]
  /\ UNCHANGED << exportVars, pq, sv, pv, ww >>

\* the wait is over: delay *= 1.5; continue; i++ and the next attempt
RtTimer ==
  /\ rt.pc = "waiting"
  /\ rt' = Attempt([rt EXCEPT !.delay = Backoff(rt.delay), !.i = rt.i + 1])
  /\ UNCHANGED << exportVars, pq, sv, pv, ww >>

RetryNext ==
  \/ RtStart
  \/ RtSettle
  \/ RtTimer

RetrySpec == RetryInit /\ [][RetryNext]_vars

\* the operation settles and the timer of the wait fires
RetryLive == RetryInit /\ [][RetryNext]_vars /\ WF_vars(RetryNext)

(***************************************************************************)
(* processQueue (src/unnamed/part_001)                                     *)
(*                                                                         *)
(* A worker is one chain of runNext calls.  Tasks are numbered from 1:     *)
(* task t is tasks[t - 1].  Times are in ms since the call of              *)
(* processQueue.                                                           *)
(***************************************************************************)
\* await new Promise(r => setTimeout(r, 1500))
PacingMs == 1500

MaxTasks == 3

MaxConcurrency == 2

\* the time a task may take to settle after the previous event of the queue
QuickTaskMs == 400

SlowTaskMs == 2000

TaskTimes == {0, QuickTaskMs, SlowTaskMs}

Min(a, b) == IF a < b THEN a ELSE b

\* an initial batch of all the tasks
Limit_All(concurrency, n) == n

\* const limit = Math.min(concurrency, tasks.length)
Limit(concurrency, n) == Min(concurrency, n)

\* a worker that lets the rejection of its task through
AfterTask_NoCatch(outcome) == IF outcome = "rejected" THEN "failed" ELSE "pacing"

\* try { await task() } catch (e) { console.error(...) }: the worker goes on
\* to its pacing delay whether the task resolved or rejected
AfterTask(outcome) == "pacing"

\* a pacing delay of no time
PaceDue_None(t) == t

\* setTimeout(r, 1500) set at time t
PaceDue(t) == t + PacingMs

\* a test that lets one index too many through
QueueExhausted_OffByOne(index, n) == index > n

\* if (index >= tasks.length) return
QueueExhausted(index, n) == index >= n

\* runNext of worker w at the time q.now:
\* if (index >= tasks.length) return; const currentIndex = index++; task()
RunNext(q, w) ==
  IF QueueExhausted(q.index, q.n)
  THEN [q EXCEPT !.workers[w] = [st |-> "done", task |-> 0, due |-> 0]]
  ELSE [q EXCEPT !.index = q.index + 1,
                 !.workers[w] = [st |-> "task", task |-> q.index + 1, due |-> 0],
                 !.dispatched = Append(q.dispatched,
                                  [task |-> q.index + 1, at |-> q.now,
                                   worker |-> w])]

\* for (let i = 0; i < limit; i++) activePromises.push(runNext())
RECURSIVE StartWorkers(_, _, _)
StartWorkers(q, w, limit) ==
  IF w > limit THEN q ELSE StartWorkers(RunNext(q, w), w + 1, limit)

\* await Promise.all(activePromises): rejects with the first worker that
\* rejects, resolves when every worker has returned
Settled(q) ==
  IF q.pc = "rejected" \/ \E w \in DOMAIN q.workers : q.workers[w].st = "failed"
  THEN [q EXCEPT !.pc = "rejected"]
  ELSE IF \A w \in DOMAIN q.workers : q.workers[w].st = "done"
  THEN [q EXCEPT !.pc = "resolved"]
  ELSE q

\* the tasks started and not yet settled
InFlight(q) == {t \in 1..q.n : q.settled[t].outcome = "pending"
                                /\ \E j \in 1..Len(q.dispatched) :
                                     q.dispatched[j].task = t}

\* the pacing timers that are running
Pacing(q) == {w \in DOMAIN q.workers : q.workers[w].st = "pacing"}

QueueInit ==
  /\ scenes = << >>
  /\ backgroundMusicUrl = "none"
  /\ ExportIdle
  /\ rt = RetryIdle
  /\ sv = ViewIdle
  /\ pv = PreviewIdle
  /\ ww = WrapIdle
  /\ \E n \in 0..MaxTasks, c \in 1..MaxConcurrency :
       pq = [pc |-> "start", n |-> n, concurrency |-> c, index |-> 0,
             now |-> 0, workers |-> << >>, dispatched |-> << >>,
             settled |-> [t \in 1..n |-> [outcome |-> "pending", at |-> 0]]]

\* processQueue(tasks, concurrency) is called: lines 63-90 up to the await
QStart ==
  /\ pq.pc = "start"
  /\ LET limit == Limit(pq.concurrency, pq.n)
         q == [pq EXCEPT !.pc = "running",
                         !.workers = [w \in 1..limit |->
                                        [st |-> "idle", task |-> 0, due |-> 0]]]
     IN pq' = Settled(StartWorkers(q, 1, limit))
  /\ UNCHANGED << exportVars, rt, sv, pv, ww >>

\* the task of worker w settles; the worker starts its pacing delay
QTaskSettles(w) ==
  /\ pq.pc \in {"running", "rejected"}
  /\ pq.workers[w].st = "task"
  /\ \E dt \in TaskTimes, outcome \in {"resolved", "rejected"} :
       LET t == pq.now + dt IN
         /\ \A v \in Pacing(pq) : t <= pq.workers[v].due
         /\ pq' = Settled(
              [pq EXCEPT !.now = t,
                         !.settled[pq.workers[w].task] =
                            [outcome |-> outcome, at |-> t],
                         !.workers[w] = [st |-> AfterTask(outcome),
                                         task |-> pq.workers[w].task,
                                         due |-> PaceDue(t)]])
  /\ UNCHANGED << exportVars, rt, sv, pv, ww >>

\* the pacing delay of worker w is over: return runNext()
QTimer(w) ==
  /\ pq.pc \in {"running", "rejected"}
  /\ w \in Pacing(pq)
  /\ \A v \in Pacing(pq) : pq.workers[w].due <= pq.workers[v].due
  /\ pq' = Settled(RunNext([pq EXCEPT !.now = pq.workers[w].due], w))
  /\ UNCHANGED << exportVars, rt, sv, pv, ww >>

QueueNext ==
  \/ QStart
  \/ \E w \in 1..MaxTasks : w \in DOMAIN pq.workers /\ QTaskSettles(w)
  \/ \E w \in 1..MaxTasks : w \in DOMAIN pq.workers /\ QTimer(w)

QueueSpec == QueueInit /\ [][QueueNext]_vars

\* every task settles and every timer fires
QueueLive == QueueInit /\ [][QueueNext]_vars /\ WF_vars(QueueNext)

(***************************************************************************)
(* The ScenesView (src/unnamed/part_001): updateScene, handleGenerateImage, *)
(* handleGenerateAudio and handleMagicGenerate                             *)
(*                                                                         *)
(* imageUrl and audioUrl are TRUE when defined; error is "none" when       *)
(* undefined and else names the asset whose generation set it.  A request  *)
(* is a call of generateImage or generateSpeech that has not settled.      *)
(***************************************************************************)
MaxViewScenes == 2

\* clicks on the per-scene buttons
MaxClicks == 2

\* clicks on the bulk button
MaxBulkRuns == 1

\* await processQueue(tasks, 2)
BulkConcurrency == 2

Kinds == {"audio", "image"}

Sources == {"click", "bulk"}

ViewIds == 1..MaxViewScenes

\* the fields of a scene by asset
FlagOf(kind) == IF kind = "image" THEN "isGeneratingImage" ELSE "isGeneratingAudio"

UrlOf(kind) == IF kind = "image" THEN "imageUrl" ELSE "audioUrl"

\* { ...s, ...updates }
Merge(scene, updates) ==
  [f \in DOMAIN scene |-> IF f \in DOMAIN updates THEN updates[f] ELSE scene[f]]

\* an update applied to every scene
UpdateScene_All(prev, id, updates) ==
  [k \in DOMAIN prev |-> Merge(prev[k], updates)]

\* setScenes(prev => prev.map(s => s.id === id ? { ...s, ...updates } : s))
UpdateScene(prev, id, updates) ==
  [k \in DOMAIN prev |-> IF prev[k].id = id THEN Merge(prev[k], updates)
                         ELSE prev[k]]

\* updateScene(scene.id, { isGeneratingImage: true, error: undefined })
StartUpdate(kind) ==
  [f \in {FlagOf(kind), "error"} |-> IF f = "error" THEN "none" ELSE TRUE]

\* updateScene(scene.id, { imageUrl, isGeneratingImage: false })
SuccessUpdate(kind) ==
  [f \in {UrlOf(kind), FlagOf(kind)} |-> f = UrlOf(kind)]

\* updateScene(scene.id, { isGeneratingImage: false, error: e?.message || ... })
FailureUpdate(kind) ==
  [f \in {FlagOf(kind), "error"} |-> IF f = "error" THEN kind ELSE FALSE]

\* if (scene.isGeneratingImage) return: the flag of the scene object passed
AlreadyGenerating(flag) == flag

\* const needsAudio = (!scene.audioUrl && !scene.isGeneratingAudio)
\*                    || (scene.error && !scene.audioUrl), and so for images
Needs(scene, kind) ==
  \/ ~scene[UrlOf(kind)] /\ ~scene[FlagOf(kind)]
  \/ scene.error # "none" /\ ~scene[UrlOf(kind)]

\* the per-scene button can be clicked: the audio button is rendered while
\* there is no audioUrl, and both are disabled while generating
ButtonEnabled(scene, kind) ==
  /\ ~scene[FlagOf(kind)]
  /\ (kind = "audio" => ~scene.audioUrl)

\* handleGenerateImage(scene) / handleGenerateAudio(scene) up to the await,
\* called with a scene object whose flag is `seen`
Invoke(v, id, kind, seen, src) ==
  IF AlreadyGenerating(seen) THEN v
  ELSE [v EXCEPT !.scenes = UpdateScene(@, id, StartUpdate(kind)),
                 !.req[<< id, kind, src >>] = @ + 1,
                 !.failed = @ \ {<< id, kind >>},
                 !.touched = @ \cup {id}]

\* scenes.forEach(scene => { if (needs) tasks.push(() => handle(scene)) })
TasksOf(list, kind) ==
  SelectSeq([k \in DOMAIN list |->
               [kind |-> kind, id |-> list[k].id,
                seen |-> list[k][FlagOf(kind)],
                needs |-> Needs(list[k], kind)]],
            LAMBDA t : t.needs)

\* runNext of a worker of the bulk queue: the next task is called
DispatchTask(v) ==
  IF v.next >= Len(v.tasks)
  THEN v
  ELSE LET t == v.tasks[v.next + 1]
           w == Invoke(v, t.id, t.kind, t.seen, "bulk")
       IN IF AlreadyGenerating(t.seen)
          THEN [w EXCEPT !.next = @ + 1, !.pacing = @ + 1]
          ELSE [w EXCEPT !.next = @ + 1, !.running = @ + 1]

RECURSIVE DispatchBatch(_, _)
DispatchBatch(v, n) ==
  IF n = 0 THEN v ELSE DispatchBatch(DispatchTask(v), n - 1)

\* await processQueue(...); setIsBulkGenerating(false)
BulkSettled(v) ==
  IF v.running = 0 /\ v.pacing = 0
  THEN [v EXCEPT !.bulk = FALSE, !.tasks = << >>, !.next = 0]
  ELSE v

ViewInit ==
  /\ scenes = << >>
  /\ backgroundMusicUrl = "none"
  /\ ExportIdle
  /\ rt = RetryIdle
  /\ pq = QueueIdle
  /\ pv = PreviewIdle
  /\ ww = WrapIdle
  /\ \E n \in 1..MaxViewScenes :
       sv = [pc |-> "view",
             scenes |-> [k \in 1..n |->
                           [id |-> k, imageUrl |-> FALSE, audioUrl |-> FALSE,
                            isGeneratingImage |-> FALSE,
                            isGeneratingAudio |-> FALSE, error |-> "none"]],
             req |-> [r \in ViewIds \X Kinds \X Sources |-> 0],
             bulk |-> FALSE, tasks |-> << >>, next |-> 0, running |-> 0,
             pacing |-> 0, failed |-> {}, touched |-> {},
             clicks |-> 0, bulks |-> 0]

\* click on "Gerar Voz" or on the regenerate button of scene k
ClickGenerate(k, kind) ==
  /\ sv.clicks < MaxClicks
  /\ k \in DOMAIN sv.scenes
  /\ ButtonEnabled(sv.scenes[k], kind)
  /\ sv' = Invoke([sv EXCEPT !.touched = {}, !.clicks = @ + 1],
                  sv.scenes[k].id, kind, sv.scenes[k][FlagOf(kind)], "click")
  /\ UNCHANGED << exportVars, rt, pq, pv, ww >>

\* click on "Gerar Tudo (Magic)": handleMagicGenerate up to the await of
\* processQueue, whose initial batch is called at once
ClickMagic ==
  /\ ~sv.bulk
  /\ sv.bulks < MaxBulkRuns
  /\ LET tasks == TasksOf(sv.scenes, "audio") \o TasksOf(sv.scenes, "image")
         v == [sv EXCEPT !.touched = {}, !.bulks = @ + 1, !.bulk = TRUE,
                         !.tasks = tasks, !.next = 0, !.running = 0,
                         !.pacing = 0]
     IN sv' = BulkSettled(DispatchBatch(v, Limit(BulkConcurrency, Len(tasks))))
  /\ UNCHANGED << exportVars, rt, pq, pv, ww >>

\* a request settles: the second updateScene of the handler; the worker of
\* a bulk task goes on to its pacing delay
RequestSettles(id, kind, src, ok) ==
  /\ sv.req[<< id, kind, src >>] > 0
  /\ LET v == [sv EXCEPT
                 !.touched = {id},
                 !.req[<< id, kind, src >>] = @ - 1,
                 !.scenes = UpdateScene(@, id,
                              IF ok THEN SuccessUpdate(kind)
                              ELSE FailureUpdate(kind)),
                 !.failed = IF ok THEN @ ELSE @ \cup {<< id, kind >>}]
     IN sv' = IF src = "bulk"
              THEN [v EXCEPT !.running = @ - 1, !.pacing = @ + 1]
              ELSE v
  /\ UNCHANGED << exportVars, rt, pq, pv, ww >>

\* the pacing delay of a worker of the bulk queue is over
BulkNext ==
  /\ sv.pacing > 0
  /\ sv' = BulkSettled(DispatchTask([sv EXCEPT !.touched = {},
                                               !.pacing = @ - 1]))
  /\ UNCHANGED << exportVars, rt, pq, pv, ww >>

ViewNext ==
  \/ \E k \in ViewIds, kind \in Kinds : ClickGenerate(k, kind)
  \/ ClickMagic
  \/ \E id \in ViewIds, kind \in Kinds, src \in Sources, ok \in BOOLEAN :
       RequestSettles(id, kind, src, ok)
  \/ BulkNext

ViewSpec == ViewInit /\ [][ViewNext]_vars

(***************************************************************************)
(* The preview of the Player (src/components/Sidebar.tsx, lines 72-161 and *)
(* 556-570).  A scene of the preview is its audioUrl being defined.        *)
(***************************************************************************)
MaxPreviewScenes == 3

PreviewLists ==
  UNION {[1..n -> BOOLEAN] : n \in 0..MaxPreviewScenes}

\* disabled={currentSceneIndex === 0}
SkipBackDisabled(index) == index = 0

\* disabled={currentSceneIndex === scenes.length - 1}
SkipForwardDisabled(index, n) == index = n - 1

\* const currentScene = scenes[currentSceneIndex]; <audio src={...audioUrl}>
HasNarration(list, index) ==
  index + 1 \in DOMAIN list /\ list[index + 1]

PreviewInit ==
  /\ scenes = << >>
  /\ backgroundMusicUrl = "none"
  /\ ExportIdle
  /\ rt = RetryIdle
  /\ pq = QueueIdle
  /\ sv = ViewIdle
  /\ ww = WrapIdle
  /\ pv = [pc |-> "preview", scenes |-> << >>, currentSceneIndex |-> 0,
           isPlaying |-> FALSE]

\* handleScriptGenerated: setScenes(newScenes)
ReplaceScenes ==
  /\ \E list \in PreviewLists : pv' = [pv EXCEPT !.scenes = list]
  /\ UNCHANGED << exportVars, rt, pq, sv, ww >>

\* togglePlay
TogglePlay ==
  /\ pv' = [pv EXCEPT !.isPlaying = ~@]
  /\ UNCHANGED << exportVars, rt, pq, sv, ww >>

\* the 'ended' event of the narration audio: handleEnded
NarrationEnded ==
  /\ pv.isPlaying
  /\ HasNarration(pv.scenes, pv.currentSceneIndex)
  /\ IF pv.currentSceneIndex < Len(pv.scenes) - 1
     THEN pv' = [pv EXCEPT !.currentSceneIndex = @ + 1]
     ELSE pv' = [pv EXCEPT !.currentSceneIndex = 0, !.isPlaying = FALSE]
  /\ UNCHANGED << exportVars, rt, pq, sv, ww >>

\* setCurrentSceneIndex(Math.max(0, currentSceneIndex - 1))
SkipBack ==
  /\ ~SkipBackDisabled(pv.currentSceneIndex)
  /\ pv' = [pv EXCEPT !.currentSceneIndex = Max(0, pv.currentSceneIndex - 1)]
  /\ UNCHANGED << exportVars, rt, pq, sv, ww >>

\* setCurrentSceneIndex(Math.min(scenes.length - 1, currentSceneIndex + 1))
SkipForward ==
  /\ ~SkipForwardDisabled(pv.currentSceneIndex, Len(pv.scenes))
  /\ pv' = [pv EXCEPT !.currentSceneIndex =
                         Min(Len(pv.scenes) - 1, pv.currentSceneIndex + 1)]
  /\ UNCHANGED << exportVars, rt, pq, sv, ww >>

PreviewNext ==
  \/ ReplaceScenes
  \/ TogglePlay
  \/ NarrationEnded
  \/ SkipBack
  \/ SkipForward

PreviewSpec == PreviewInit /\ [][PreviewNext]_vars

(***************************************************************************)
(* The subtitle of a frame (src/components/Sidebar.tsx, lines 312-363).    *)
(* A string is a sequence of characters; measureText gives every           *)
(* character, the space included, the same width.                          *)
(***************************************************************************)
\* longest narration tried, in characters
MaxChars == 5

\* width of a character of the subtitle font, in px
CharPx == 300

Chars == {"a", "b", " "}

Narrations == UNION {[1..n -> Chars] : n \in 1..MaxChars}

\* <canvas width={aspectRatio === '16:9' ? 1920 : 1080} height={... 1080 : 1920}>
CanvasLongPx == 1920

CanvasShortPx == 1080

CanvasWidth(ratio) == IF ratio = "16:9" THEN CanvasLongPx ELSE CanvasShortPx

CanvasHeight(ratio) == IF ratio = "16:9" THEN CanvasShortPx ELSE CanvasLongPx

\* const maxWidth = canvas.width * 0.8
MaxWidthTenths == 8

SubtitleMaxWidth(w) == (w * MaxWidthTenths) \div 10

\* const y = canvas.height - 100
BaselineOffsetPx == 100

\* const lineY = y - ((lines.length - 1 - i) * 60)
LineHeightPx == 60

\* ctx.measureText(str).width
Measure(str) == Len(str) * CharPx

\* text.split(' ')
RECURSIVE Split(_)
Split(t) ==
  IF \A k \in DOMAIN t : t[k] # " "
  THEN << t >>
  ELSE LET k == CHOOSE j \in DOMAIN t :
                  t[j] = " " /\ \A m \in 1..(j - 1) : t[m] # " "
       IN << SubSeq(t, 1, k - 1) >> \o Split(SubSeq(t, k + 1, Len(t)))

\* a layout that never breaks a line
WrapBreaks_Never(width, maxWidth, n) == FALSE

\* if (metrics.width > maxWidth && n > 0), n counting from 0
WrapBreaks(width, maxWidth, n) == width > maxWidth /\ n > 0

\* a new line that leaves out the word that did not fit
StartLine_Dropped(word) == << " " >>

\* line = words[n] + ' '
StartLine(word) == word \o << " " >>

\* for (let n = 0; n < words.length; n++) { ... } lines.push(line)
RECURSIVE WrapFrom(_, _, _, _, _)
WrapFrom(words, n, line, lines, maxWidth) ==
  IF n >= Len(words)
  THEN Append(lines, line)
  ELSE LET testLine == line \o words[n + 1] \o << " " >> IN
         IF WrapBreaks(Measure(testLine), maxWidth, n)
         THEN WrapFrom(words, n + 1, StartLine(words[n + 1]),
                       Append(lines, line), maxWidth)
         ELSE WrapFrom(words, n + 1, testLine, lines, maxWidth)

WordWrap(text, maxWidth) == WrapFrom(Split(text), 0, << >>, << >>, maxWidth)

\* lines.forEach((line, i) => { const lineY = y - ((lines.length - 1 - i) * 60)
LineY(y, count, k) == y - ((count - 1 - k) * LineHeightPx)

WrapInit ==
  /\ scenes = << >>
  /\ backgroundMusicUrl = "none"
  /\ ExportIdle
  /\ rt = RetryIdle
  /\ pq = QueueIdle
  /\ sv = ViewIdle
  /\ pv = PreviewIdle
  /\ \E text \in Narrations, ratio \in {"16:9", "9:16"} :
       ww = [pc |-> "frame", text |-> text,
             width |-> CanvasWidth(ratio), height |-> CanvasHeight(ratio),
             lines |-> << >>, ys |-> << >>]

\* if (showSubtitles && scene.narration) { ... }: the subtitle of one frame
DrawSubtitles ==
  /\ ww.pc = "frame"
  /\ Len(ww.text) > 0
  /\ LET lines == WordWrap(ww.text, SubtitleMaxWidth(ww.width))
         y == ww.height - BaselineOffsetPx
     IN ww' = [ww EXCEPT !.pc = "drawn",
                         !.lines = lines,
                         !.ys = [k \in 1..Len(lines) |->
                                   LineY(y, Len(lines), k - 1)]]
  /\ UNCHANGED << exportVars, rt, pq, sv, pv >>

WrapNext == DrawSubtitles

WrapSpec == WrapInit /\ [][WrapNext]_vars

(***************************************************************************)
(* The states of the Timeline Driver, read off the position of the code    *)
(***************************************************************************)
State ==
  CASE pc = "idle" -> << "Idle", 0 >>
    [] pc \in {"setup", "loadMusic", "startRecorder"} -> << "Initializing", 0 >>
    [] pc \in {"loadImage", "loadAudio", "frame", "wait"} -> << "PerSceneLoop", i >>
    [] pc = "awaitStop" -> << "Finalizing", 0 >>
    [] pc = "complete" -> << "Complete", 0 >>
    [] pc = "aborted" -> << "Aborted", 0 >>

Terminal == {"Complete", "Aborted"}

\* the transitions of one invocation, n being the number of its scenes
AllowedTransition(s, t, n) ==
  \/ /\ s[1] = "Initializing"
     /\ t \in { << "PerSceneLoop", 1 >>, << "Aborted", 0 >> }
  \/ /\ s[1] = "PerSceneLoop"
     /\ \/ s[2] < n /\ t = << "PerSceneLoop", s[2] + 1 >>
        \/ s[2] = n /\ t = << "Finalizing", 0 >>
        \/ t = << "Aborted", 0 >>
  \/ /\ s[1] = "Finalizing"
     /\ t \in { << "Complete", 0 >>, << "Aborted", 0 >> }

\* C1: every export invocation starts in Initializing from Idle or from the
\* terminal state of the previous invocation, then moves only along
\* Initializing -> PerSceneLoop(1) -> ... -> PerSceneLoop(N) -> Finalizing ->
\* Complete, one scene index after the other, or to Aborted from a
\* non-terminal state with an error caught; Complete and Aborted are left by
\* no step of the invocation.
C1_ExportPath ==
  [][ IF exportsStarted' # exportsStarted
      THEN /\ State[1] \in Terminal \cup {"Idle"}
           /\ State' = << "Initializing", 0 >>
      ELSE \/ State' = State
           \/ /\ AllowedTransition(State, State', Len(capScenes))
              /\ (State'[1] = "Aborted" => failure' # "none")
              /\ (State'[1] = "Complete" => Len(contrib) = Len(capScenes)) ]_vars

C1_Witness ==
  /\ pc = "complete"
  /\ Len(capScenes) = 2
  /\ Len(contrib) = 2

C4_TotalIsSumOfScenes ==
  pc \in {"awaitStop", "complete"} => recordedMs = SumLoop(contrib)

\* C5: the narration of scene k+1 is started only after the render loop of
\* scene k has been left.
C5_NarrationAfterPreviousLoop ==
  \A k \in narrStarted : k > 1 => k - 1 <= Len(contrib)

C5_Witness ==
  /\ 2 \in narrStarted
  /\ pc = "frame"
  /\ Len(contrib) = 1

\* C6: under the assumption that every awaited load, timer and stop event
\* settles, an export that was started reaches Complete or Aborted and
\* isExporting is cleared.
C6_ExportTerminates ==
  isExporting ~> (~isExporting /\ pc \in {"complete", "aborted"})

C6_Witness ==
  /\ pc = "complete"
  /\ ~isExporting
  /\ downloads = 1
  /\ \E k \in 1..Len(capScenes) : capScenes[k].audioUrl = "none"

\* C7: no failure to load the background track or a narration clip aborts the
\* export: the background bed is then absent, the scene gets the fallback
\* duration and no narration, and a completed export has rendered every scene.
C7_AudioFailureContained ==
  /\ failure \notin {"music", "sceneAudio"}
  /\ \A k \in 1..Len(contrib) :
       capScenes[k].audioUrl = "bad" =>
         /\ contrib[k].nominal = DefaultDurationMs + GraceMs
         /\ k \notin narrStarted
  /\ (capMusic = "bad" => ~musicBuffer /\ musicSource = "null")
  /\ (pc = "complete" => Len(contrib) = Len(capScenes))

C7_Witness ==
  /\ pc = "complete"
  /\ capMusic = "bad"
  /\ \E k \in 1..Len(capScenes) : capScenes[k].audioUrl = "bad"

\* C8: a scene whose image failed to load does not abort the export: no draw
\* of the image is attempted, so no export ends on the error of drawImage.
C8_ImageFailureTolerated ==
  failure # "drawImage"

\* C9: in Aborted every resource acquired is released: the audio graph is not
\* running, the background bed is not playing, the capture sink not recording.
C9_AbortReleasesResources ==
  pc = "aborted" =>
    /\ actx # "running"
    /\ musicSource # "playing"
    /\ recorder # "recording"

\* C10: at most one invocation of handleExportVideo is in flight, and the busy
\* flag that disables the export button is set exactly while one is.
C10_OneExportInFlight ==
  /\ inFlight <= 1
  /\ isExporting <=> inFlight = 1
  /\ isExporting <=> pc \notin {"idle", "complete", "aborted"}

C10_Witness ==
  /\ exportsStarted = 2
  /\ inFlight = 1
  /\ pc = "wait"

\* C11: Finalizing is ordered: the sink is told to stop only after the last
\* scene's loop was left and the bed stopped; the audio graph is closed and the
\* file delivered (Complete) only after the sink has fired its stop event,
\* that is after it has flushed.
C11_FinalizingOrder ==
  /\ (recorder \in {"inactive", "stopped"} =>
        /\ musicSource # "playing"
        /\ Len(contrib) = Len(capScenes))
  /\ (actx = "closed" => recorder = "stopped")
  /\ (pc = "complete" => recorder = "stopped" /\ actx = "closed")
  /\ (pc = "awaitStop" => actx = "running")

C11_Witness ==
  /\ pc = "complete"
  /\ recorder = "stopped"
  /\ actx = "closed"
  /\ musicSource = "stopped"
  /\ Len(contrib) = 2

\* C12: with a background track that loads, the bed plays for as long as the
\* sink records, through every scene boundary; within one export it is
\* started only by the step that starts the recorder and stopped only by the
\* step that leaves the last scene's loop, and it is stopped from then on.
C12_BedContinuous ==
  /\ [](capMusic = "ok" /\ recorder = "recording" => musicSource = "playing")
  /\ [](pc \in {"awaitStop", "complete"} => musicSource # "playing")
  /\ [][ exportsStarted' = exportsStarted =>
           /\ (musicSource # "playing" /\ musicSource' = "playing" =>
                 pc = "startRecorder" /\ musicSource = "null")
           /\ (musicSource = "playing" /\ musicSource' # "playing" =>
                 /\ pc = "wait"
                 /\ pc' = "awaitStop"
                 /\ Len(contrib') = Len(capScenes)) ]_vars

C12_Witness ==
  /\ capMusic = "ok"
  /\ musicSource = "playing"
  /\ i = 2
  /\ pc = "wait"
  /\ Len(contrib) = 1

\* C13: every frame of an export is rendered on a canvas of the dimensions
\* the aspect ratio had when the export was started.
C13_SurfaceCapturedAtStart ==
  \A a \in surface : a = startAspect

\* the results of the calls of the operation so far
RtResults == [j \in 1..Len(rt.history) |-> rt.history[j].result]

AllRateLimited(res, n) ==
  \A j \in 1..n : res[j] \in Errors /\ IsRateLimit(res[j])

\* C14: when the operation fails with rate-limit errors on its first k calls,
\* k < maxRetries, retryOperation does not give up but waits or calls again;
\* when call k+1 then succeeds, it has returned the value after exactly k+1
\* calls; and every call of retryOperation ends.
C14_RetrySucceeds ==
  /\ [](rt.pc # "start" /\ Len(rt.history) < rt.maxRetries
          /\ AllRateLimited(RtResults, Len(rt.history))
        => rt.pc \in {"calling", "waiting"})
  /\ [](Len(rt.history) > 0 /\ RtResults[Len(rt.history)] = Value =>
          /\ rt.pc = "returned"
          /\ rt.result = Value
          /\ Len(rt.history) <= rt.maxRetries
          /\ AllRateLimited(RtResults, Len(rt.history) - 1))
  /\ [](rt.pc = "returned" => RtResults[Len(rt.history)] = Value)
  /\ <>(rt.pc \in {"returned", "thrown"})

C14_Witness ==
  /\ rt.pc = "returned"
  /\ rt.maxRetries = 3
  /\ Len(rt.history) = 3

\* C15: when the operation fails with rate-limit errors on its first
\* maxRetries calls, retryOperation has thrown the error of the last of them
\* after maxRetries calls and maxRetries - 1 waits; the operation is never
\* called more than maxRetries times.
C15_RetryExhausted ==
  /\ Len(rt.history) <= rt.maxRetries
  /\ (rt.pc = "calling" => Len(rt.history) < rt.maxRetries)
  /\ (Len(rt.history) = rt.maxRetries
        /\ AllRateLimited(RtResults, rt.maxRetries) =>
          /\ rt.pc = "thrown"
          /\ rt.result = RtResults[rt.maxRetries]
          /\ Len(rt.waits) = rt.maxRetries - 1)
  /\ rt.result # SubstituteError

C15_Witness ==
  /\ rt.pc = "thrown"
  /\ rt.maxRetries = 3
  /\ Len(rt.history) = 3
  /\ IsRateLimit(rt.result)

\* C16: an error of the operation that is not a rate limit is the last call:
\* retryOperation has thrown that error, with no wait after it.
C16_NonRateLimitRethrown ==
  \A j \in 1..Len(rt.history) :
    RtResults[j] \in Errors /\ ~IsRateLimit(RtResults[j]) =>
      /\ j = Len(rt.history)
      /\ rt.pc = "thrown"
      /\ rt.result = RtResults[j]
      /\ Len(rt.waits) = j - 1

C16_Witness ==
  /\ rt.pc = "thrown"
  /\ ~IsRateLimit(rt.result)
  /\ Len(rt.history) = 2
  /\ rt.maxRetries = 3

\* C20 (as stated): the fallback of generateImage is called only after a
\* failure of the primary path that is not a rate limit.
C20_FallbackOnlyOnNonRateLimit ==
  \A j \in 1..Len(rt.history) :
    rt.history[j].fallback # NotCalled =>
      /\ rt.history[j].primary # Value
      /\ ~IsRateLimit(rt.history[j].primary)

\* C20 (amended): generateImage calls the fallback after every failure of the
\* primary path, rate limits included, and after no success; the attempt
\* ends as the fallback ends, and retryOperation tries again only after a
\* rate-limit error of the fallback.
C20_FallbackOnAnyFailure ==
  \A j \in 1..Len(rt.history) :
    LET h == rt.history[j] IN
      /\ (h.fallback # NotCalled <=> rt.op = "image" /\ h.primary # Value)
      /\ h.result = (IF h.fallback = NotCalled THEN h.primary ELSE h.fallback)
      /\ (rt.op = "image" /\ j < Len(rt.history) =>
            /\ h.fallback \in Errors
            /\ IsRateLimit(h.fallback))

C20_Witness ==
  /\ rt.pc = "returned"
  /\ rt.op = "image"
  /\ Len(rt.history) = 1
  /\ rt.history[1].primary \in Errors
  /\ IsRateLimit(rt.history[1].primary)
  /\ rt.history[1].fallback = Value

\* C17: at most `concurrency` tasks are started and not yet settled.
C17_BoundedInFlight ==
  pq.pc # "start" => Cardinality(InFlight(pq)) <= pq.concurrency

C17_Witness ==
  /\ pq.pc = "running"
  /\ pq.concurrency = 2
  /\ Len(pq.dispatched) = 3
  /\ Cardinality(InFlight(pq)) = 2

\* C18: processQueue never rejects, whatever tasks reject; it resolves in the
\* end, and when it has resolved every task of the list was started and has
\* settled.
C18_FailuresContained ==
  /\ [](pq.pc # "rejected")
  /\ [](pq.pc = "resolved" =>
          /\ {pq.dispatched[j].task : j \in 1..Len(pq.dispatched)} = 1..pq.n
          /\ \A t \in 1..pq.n : pq.settled[t].outcome # "pending")
  /\ <>(pq.pc = "resolved")

C18_Witness ==
  /\ pq.pc = "resolved"
  /\ pq.n = 3
  /\ pq.settled[1].outcome = "rejected"
  /\ pq.settled[3].outcome = "resolved"

\* C19 (as stated): every task but the first is dispatched at least the
\* pacing delay after the dispatch before it, the initial batch included.
C19_PacedDispatches ==
  pq.pc # "start" =>
    \A j \in 2..Len(pq.dispatched) :
      pq.dispatched[j].at - pq.dispatched[j - 1].at >= PacingMs

\* C19 (amended): the initial batch of min(concurrency, tasks) tasks is
\* dispatched together at the call; every later task is dispatched by a
\* worker the pacing delay after that worker's previous task settled.
C19_PacedPerWorker ==
  pq.pc # "start" =>
    \A j \in 1..Len(pq.dispatched) :
      LET d == pq.dispatched[j]
          before == {k \in 1..(j - 1) : pq.dispatched[k].worker = d.worker}
      IN IF j <= Min(pq.concurrency, pq.n)
         THEN d.at = 0 /\ before = {}
         ELSE \E k \in before :
                /\ \A m \in before : m <= k
                /\ pq.settled[pq.dispatched[k].task].outcome # "pending"
                /\ d.at >= pq.settled[pq.dispatched[k].task].at + PacingMs

C19_Witness ==
  /\ Len(pq.dispatched) = 3
  /\ pq.concurrency = 2
  /\ pq.dispatched[2].at = pq.dispatched[1].at
  /\ pq.dispatched[3].at = QuickTaskMs + PacingMs

\* C25: one wait precedes each retry and none follows the last attempt; the
\* first wait has the base initialDelay, each later base is 1.5 times the base
\* before it, so strictly larger, and the jitter of a wait is in [0, 1000) ms.
C25_BackoffSchedule ==
  /\ (rt.pc \in {"calling", "waiting"} => Len(rt.waits) = Len(rt.history))
  /\ (rt.pc \in {"returned", "thrown"} =>
        Len(rt.waits) = Len(rt.history) - 1)
  /\ \A n \in 1..Len(rt.waits) :
       /\ rt.waits[n].base =
            (IF n = 1 THEN rt.initialDelay * DelayScale
             ELSE (3 * rt.waits[n - 1].base) \div 2)
       /\ (n > 1 => 2 * rt.waits[n].base = 3 * rt.waits[n - 1].base
                    /\ rt.waits[n].base > rt.waits[n - 1].base)
       /\ rt.waits[n].jitter >= 0
       /\ rt.waits[n].jitter < JitterRangeMs * DelayScale

C25_Witness ==
  /\ rt.pc = "returned"
  /\ Len(rt.waits) = 2
  /\ Len(rt.history) = 3

\* C29: tasks are dispatched in list order, each once; the index never
\* exceeds the number of tasks; processQueue has resolved only when every
\* task was dispatched and has settled; the call with an empty list resolves
\* at once and dispatches nothing.
C29_DispatchedOnceInOrder ==
  pq.pc # "start" =>
    /\ pq.index <= pq.n
    /\ Len(pq.dispatched) = pq.index
    /\ \A j \in 1..Len(pq.dispatched) : pq.dispatched[j].task = j
    /\ (pq.pc = "resolved" =>
          /\ pq.index = pq.n
          /\ \A t \in 1..pq.n : pq.settled[t].outcome # "pending")
    /\ (pq.n = 0 => pq.pc = "resolved" /\ pq.dispatched = << >>)

C29_Witness ==
  /\ pq.pc = "resolved"
  /\ pq.n = 3
  /\ pq.concurrency = 2
  /\ pq.dispatched[3].worker = 2

\* C22: the scale of every frame is 1.0 + 0.15 x loopTime / durationMs: at
\* least 1.0 and below 1.15, exactly 1.0 at the first frame of a scene and not
\* below the scale of the frame before it in the scene.
C22_ZoomScale ==
  [][ pc = "frame" /\ pc' = "wait" =>
        /\ zoom'.den = ZoomStartPct * durationMs
        /\ zoom'.num = zoom'.den + ZoomRangePct * loopTime
        /\ zoom'.num >= zoom'.den
        /\ ZoomStartPct * zoom'.num < (ZoomStartPct + ZoomRangePct) * zoom'.den
        /\ (zoom = NoZoom => zoom'.num = zoom'.den)
        /\ (zoom # NoZoom => zoom'.den = zoom.den /\ zoom'.num >= zoom.num) ]_vars

C22_Witness ==
  /\ pc = "wait"
  /\ i = 2
  /\ zoom.num > zoom.den

\* C24: the loop time of a scene starts at 0 with a positive duration, so a
\* first frame is rendered; every frame takes its render time plus
\* max(0, frame interval - render time); the loop time advances by the time
\* that has passed, and the loop is left, after a frame, only when the loop
\* time has reached the duration.
C24_WallClockLoop ==
  [][ /\ (pc = "loadAudio" /\ pc' = "frame" =>
            loopTime' = 0 /\ durationMs' > 0)
      /\ (pc = "frame" /\ pc' = "wait" =>
            \E e \in RenderTimes :
              frameMs' = e + Max(0, FrameIntervalMs - e))
      /\ (pc = "wait" =>
            /\ loopTime' - loopTime = frameMs
            /\ loopTime' - loopTime = recordedMs' - recordedMs
            /\ (pc' = "frame" <=> loopTime' < durationMs))
      /\ (contrib' # contrib /\ exportsStarted' = exportsStarted =>
            /\ pc = "wait"
            /\ zoom # NoZoom
            /\ loopTime' >= durationMs) ]_vars

C24_Witness ==
  /\ pc = "complete"
  /\ Len(contrib) = 2
  /\ contrib[1].last = SlowRenderMs
  /\ contrib[1].loop >= contrib[1].nominal

\* C21: every update of the handlers keeps the number, the order and the ids
\* of the scenes and changes no scene but those whose id was passed to
\* updateScene in that step.
C21_UpdatesOnlyMatchingScene ==
  [][ /\ Len(sv'.scenes) = Len(sv.scenes)
      /\ \A k \in DOMAIN sv.scenes :
           /\ sv'.scenes[k].id = sv.scenes[k].id
           /\ (sv'.scenes[k] # sv.scenes[k] => sv.scenes[k].id \in sv'.touched)
    ]_vars

C21_Witness ==
  /\ Len(sv.scenes) = 2
  /\ sv.scenes[1].error = "image"
  /\ sv.scenes[2].error = "none"
  /\ sv.scenes[2].isGeneratingImage
  /\ sv.touched = {1}

\* C26: a scene whose audio (or image) generation failed, with no later
\* generation of that asset started, has its error field set.
C26_ErrorReflectsFailures ==
  \A k \in DOMAIN sv.scenes, kind \in Kinds :
    << sv.scenes[k].id, kind >> \in sv.failed => sv.scenes[k].error # "none"

\* C27: for every scene and asset at most one request is in flight.
C27_NoDoubleSubmission ==
  \A id \in ViewIds, kind \in Kinds :
    sv.req[<< id, kind, "click" >>] + sv.req[<< id, kind, "bulk" >>] <= 1

\* C28: currentSceneIndex is never negative and, when there are scenes, is
\* the index of one of them.
C28_IndexValid ==
  /\ pv.currentSceneIndex >= 0
  /\ (Len(pv.scenes) > 0 => pv.currentSceneIndex < Len(pv.scenes))

\* the words of a line as drawn: every word is followed by a space
WordsOfLine(line) ==
  LET parts == Split(line) IN SubSeq(parts, 1, Len(parts) - 1)

RECURSIVE WordsOfLines(_)
WordsOfLines(lines) ==
  IF lines = << >> THEN << >>
  ELSE WordsOfLine(Head(lines)) \o WordsOfLines(Tail(lines))

\* C23 (as stated): a line wider than the maximum width is a single word
\* that is itself wider than the maximum width.
C23_LinesFit ==
  ww.pc = "drawn" =>
    \A k \in 1..Len(ww.lines) :
      Measure(ww.lines[k]) > SubtitleMaxWidth(ww.width) =>
        /\ Len(WordsOfLine(ww.lines[k])) = 1
        /\ Measure(WordsOfLine(ww.lines[k])[1]) > SubtitleMaxWidth(ww.width)

\* C23 (amended): a line wider than the maximum width, measured as drawn
\* with the space after its last word, is a single word; every word, however
\* wide, is in a line.
C23_LinesFitButSingleWords ==
  ww.pc = "drawn" =>
    /\ \A k \in 1..Len(ww.lines) :
         Measure(ww.lines[k]) > SubtitleMaxWidth(ww.width) =>
           Len(WordsOfLine(ww.lines[k])) = 1
    /\ \A n \in 1..Len(Split(ww.text)) :
         \E k \in 1..Len(ww.lines) :
           \E m \in 1..Len(WordsOfLine(ww.lines[k])) :
             WordsOfLine(ww.lines[k])[m] = Split(ww.text)[n]

C23_Witness ==
  /\ ww.pc = "drawn"
  /\ Len(ww.lines) = 2
  /\ Len(WordsOfLine(ww.lines[1])) = 1
  /\ Measure(WordsOfLine(ww.lines[1])[1]) > SubtitleMaxWidth(ww.width)

\* C30: the words of the lines, top line first, are the words of the
\* narration in their order, each once; line k of N, counted from 0, is drawn
\* (N - 1 - k) x 60 px above the baseline at the frame height - 100 px.
C30_WrapLosesNothing ==
  ww.pc = "drawn" =>
    /\ WordsOfLines(ww.lines) = Split(ww.text)
    /\ Len(ww.ys) = Len(ww.lines)
    /\ \A k \in 1..Len(ww.lines) :
         ww.ys[k] = (ww.height - BaselineOffsetPx)
                      - (Len(ww.lines) - k) * LineHeightPx

C30_Witness ==
  /\ ww.pc = "drawn"
  /\ Len(ww.lines) = 3
  /\ ww.ys[1] = ww.height - BaselineOffsetPx - 2 * LineHeightPx
  /\ ww.ys[3] = ww.height - BaselineOffsetPx

====
